---- MODULE Spec2Model ----
(***************************************************************************)
(* OtKeep: named scripts and files kept out of tree in one SQLite          *)
(* database, scoped by registered tree roots.  The model follows           *)
(* src/database.rs (the Database methods), src/lib.rs (root resolution),   *)
(* src/bin/okeep.rs (the commands and the prune sweeps) and, for running   *)
(* a script, src/bin/otrun.rs and src/run.rs.                              *)
(***************************************************************************)
EXTENDS Integers, Sequences, FiniteSets, TLC

(***************************************************************************)
(* Bounds of the model.                                                    *)
(***************************************************************************)
MaxDepth == 2          \* deepest directory below the filesystem root
MaxBlobId == 2         \* largest blob rowid handed out
MaxTreeId == 2         \* largest tree rowid handed out

Comps == {"a", "b"}                 \* directory names
Names == {"build", "test"}          \* script and file names
Bodies == {"", "x"}                 \* byte sequences ("" is the empty one)
NULL == "NULL"                      \* SQL NULL in a nullable column

\* Option<T>: None or Some(x)
None == {}
Some(x) == {x}
Unwrap(o) == CHOOSE x \in o : TRUE

Max(S) == CHOOSE x \in S : \A y \in S : y <= x
Min(S) == CHOOSE x \in S : \A y \in S : x <= y

\* absolute, normalised directories: the sequence of components below "/"
Paths == UNION {[1..n -> Comps] : n \in 0..MaxDepth}

\* the directories the commands of the full model are run in: / and /a
Cwds == {<<>>, <<"a">>}

\* Path::parent: None for the filesystem root
parent(path) == IF path = <<>> THEN None ELSE Some(SubSeq(path, 1, Len(path) - 1))

\* paths_as_strings::encode_path on a UTF-8 path: the path's own text,
\* here the characters "/" c1 "/" c2 ... ("/" alone for the root)
RECURSIVE JoinComps(_)
JoinComps(path) ==
    IF path = <<>> THEN <<>>
    ELSE JoinComps(SubSeq(path, 1, Len(path) - 1)) \o <<"/", path[Len(path)]>>
encode_path(path) == IF path = <<>> THEN <<"/">> ELSE JoinComps(path)

\* paths_as_strings::decode_path: the components between the separators
decode_path(str) ==
    IF str = <<"/">> THEN <<>> ELSE [i \in 1..(Len(str) \div 2) |-> str[2 * i]]

(***************************************************************************)
(* The database: four tables.  A blobs or trees row is keyed by its        *)
(* implicit rowid; binding rows are records.                               *)
(***************************************************************************)
VARIABLES
    db,             \* [blobs, trees, tree_scripts, tree_files]
    prune_pc,       \* position of the running `prune blobs` sweep
    tree_blob_refs, \* its snapshot of the referenced blob ids
    len,            \* its snapshot of the blobs table length
    rowid,          \* its loop variable
    last,           \* the last operation and what it returned
    otrun,          \* the otrun process: its position, its temporary
                    \* directory, its child and its exit code
    tx,             \* an invocation inside a transaction: its position and
                    \* the database as its connection sees it
    est             \* the invocations of establish that run side by side:
                    \* position, directory and result of each

vars == <<db, prune_pc, tree_blob_refs, len, rowid, last, otrun, tx, est>>

\* create_tables.sql, run by Database::load on an empty file
EmptyDb ==
    [blobs |-> <<>>, trees |-> <<>>, tree_scripts |-> {}, tree_files |-> {}]

\* rowid SQLite gives a row inserted without one: one past the largest
NewRowid(table) == IF DOMAIN table = {} THEN 1 ELSE Max(DOMAIN table) + 1

InsertRow(table, id, val) == [i \in DOMAIN table \cup {id} |-> IF i = id THEN val ELSE table[i]]
DeleteRows(table, ids) == [i \in DOMAIN table \ ids |-> table[i]]

\* blobs.body is UNIQUE: the rows a new non-NULL body collides with
BodyConflicts(d, body) == {i \in DOMAIN d.blobs : body # NULL /\ d.blobs[i] = body}
\* "... WHERE tree_id=?1 AND name=?2" on a binding table
RowsNamed(rows, tree_id, name) ==
    {r \in rows : r.tree_id = tree_id /\ r.name = name}
\* the schema without UNIQUE(tree_id, name) on the binding tables
BindingConflicts_NoUnique(rows, tree_id, name) == {}
\* tree_scripts / tree_files are UNIQUE(tree_id, name): the rows a new
\* (tree_id, name) collides with
BindingConflicts(rows, tree_id, name) ==
    {r \in rows : r.tree_id = tree_id /\ r.name = name}
\* trees.root is UNIQUE
RootConflicts(d, str) == {i \in DOMAIN d.trees : d.trees[i] = str}

Ok(d, val) == [ok |-> TRUE, err |-> "", db |-> d, val |-> val]
Err(d, e) == [ok |-> FALSE, err |-> e, db |-> d, val |-> None]

(***************************************************************************)
(* Database methods (src/database.rs).  Each takes the database d and      *)
(* returns [ok, err, db, val]: the Result and the database afterwards.     *)
(***************************************************************************)

\* "INSERT INTO blobs (body) VALUES (?)"; val is last_insert_rowid()
InsertBlob(d, body) ==
    IF BodyConflicts(d, body) # {} THEN Err(d, "Constraint")
    ELSE Ok([d EXCEPT !.blobs = InsertRow(@, NewRowid(@), body)], NewRowid(d.blobs))

\* "INSERT OR REPLACE INTO blobs (body) VALUES (?)": the new rowid is taken
\* first, then the rows with the same body are deleted, then the row is added
ReplaceBlob(d, body) ==
    Ok([d EXCEPT !.blobs =
            InsertRow(DeleteRows(@, BodyConflicts(d, body)), NewRowid(@), body)],
       NewRowid(d.blobs))

Binding(tree_id, name, blob_id) ==
    [tree_id |-> tree_id, name |-> name, blob_id |-> blob_id, desc |-> NULL]

\* "INSERT INTO tree_scripts (tree_id, name, blob_id) VALUES (?1, ?2, ?3)"
InsertScript(d, tree_id, name, blob_id) ==
    IF BindingConflicts(d.tree_scripts, tree_id, name) # {} THEN Err(d, "Constraint")
    ELSE Ok([d EXCEPT !.tree_scripts = @ \cup {Binding(tree_id, name, blob_id)}], None)

\* "INSERT OR REPLACE INTO tree_files (tree_id, name, blob_id) VALUES (?1, ?2, ?3)"
ReplaceFile(d, tree_id, name, blob_id) ==
    Ok([d EXCEPT !.tree_files =
            (@ \ BindingConflicts(@, tree_id, name)) \cup {Binding(tree_id, name, blob_id)}],
       None)

\* a variant that commits the blob row although the binding insert failed
add_script_NoTransaction(d, tree_id, name, body) ==
    LET b == InsertBlob(d, body) IN
    IF ~b.ok THEN Err(d, b.err)
    ELSE LET s == InsertScript(b.db, tree_id, name, b.val) IN
         IF ~s.ok THEN Err(b.db, s.err) ELSE Ok(s.db, b.val)

\* a variant that binds the name to the rowid before the inserted one
add_script_WrongRowid(d, tree_id, name, body) ==
    LET b == InsertBlob(d, body) IN
    IF ~b.ok THEN Err(d, b.err)
    ELSE LET s == InsertScript(b.db, tree_id, name, b.val - 1) IN
         IF ~s.ok THEN Err(d, s.err) ELSE Ok(s.db, b.val)

\* a variant that binds the name to the row that already holds the body
add_script_ReuseRow(d, tree_id, name, body) ==
    LET same == BodyConflicts(d, body)
        b == IF same = {} THEN InsertBlob(d, body)
             ELSE Ok(d, CHOOSE i \in DOMAIN d.blobs : d.blobs[i] = body)
    IN IF ~b.ok THEN Err(d, b.err)
       ELSE LET s == InsertScript(b.db, tree_id, name, b.val) IN
            IF ~s.ok THEN Err(d, s.err) ELSE Ok(s.db, b.val)

\* Database::add_script: both inserts in one transaction; an error drops the
\* transaction uncommitted, which rolls the blob row back.  val: the blob id
add_script(d, tree_id, name, body) ==
    LET b == InsertBlob(d, body) IN
    IF ~b.ok THEN Err(d, b.err)
    ELSE LET s == InsertScript(b.db, tree_id, name, b.val) IN
         IF ~s.ok THEN Err(d, s.err) ELSE Ok(s.db, b.val)

\* Database::query_script_id_from_name / query_file_id_from_name
query_script_id_from_name(d, tree_id, name) ==
    {r.blob_id : r \in RowsNamed(d.tree_scripts, tree_id, name)}
query_file_id_from_name(d, tree_id, name) ==
    {r.blob_id : r \in RowsNamed(d.tree_files, tree_id, name)}

\* a variant that looks the name up in every tree
update_script_AnyTree(d, tree_id, name, body) ==
    LET q == {r.blob_id : r \in {x \in d.tree_scripts : x.name = name}} IN
    IF q = None THEN Err(d, "No such script")
    ELSE LET blob_id == Max(q) IN
         IF blob_id \notin DOMAIN d.blobs THEN Ok(d, blob_id)
         ELSE IF BodyConflicts(d, body) \ {blob_id} # {} THEN Err(d, "Constraint")
         ELSE Ok([d EXCEPT !.blobs[blob_id] = body], blob_id)

\* Database::update_script: "UPDATE blobs SET body=?1 WHERE _rowid_=?2"
\* changes no row when the rowid has none, and fails when another row has body
update_script(d, tree_id, name, body) ==
    LET q == query_script_id_from_name(d, tree_id, name) IN
    IF q = None THEN Err(d, "No such script")
    ELSE LET blob_id == Unwrap(q) IN
         IF blob_id \notin DOMAIN d.blobs THEN Ok(d, blob_id)
         ELSE IF BodyConflicts(d, body) \ {blob_id} # {} THEN Err(d, "Constraint")
         ELSE Ok([d EXCEPT !.blobs[blob_id] = body], blob_id)

\* a variant that deletes by name alone, in every tree
remove_script_AnyTree(d, tree_id, name) ==
    LET gone == {r \in d.tree_scripts : r.name = name} IN
    Ok([d EXCEPT !.tree_scripts = @ \ gone], gone # {})

\* Database::remove_script: "DELETE FROM tree_scripts WHERE tree_id=?1 AND
\* name=?2"; val: whether a row was deleted
\* a variant that removes the file of that name with the script
remove_script_BothKinds(d, tree_id, name) ==
    LET gone == RowsNamed(d.tree_scripts, tree_id, name) IN
    Ok([d EXCEPT !.tree_scripts = @ \ gone,
                 !.tree_files = @ \ RowsNamed(@, tree_id, name)], Cardinality(gone) > 0)

remove_script(d, tree_id, name) ==
    LET gone == RowsNamed(d.tree_scripts, tree_id, name) IN
    Ok([d EXCEPT !.tree_scripts = @ \ gone], Cardinality(gone) > 0)

\* Database::blob_is_null: query_row fails when the rowid has no row
blob_is_null(d, id) ==
    IF id \notin DOMAIN d.blobs THEN Err(d, "QueryReturnedNoRows")
    ELSE Ok(d, d.blobs[id] = NULL)

\* a variant that reads a NULL body as the empty byte sequence
fetch_blob_NullAsEmpty(d, id) ==
    IF id \notin DOMAIN d.blobs THEN Err(d, "QueryReturnedNoRows")
    ELSE IF d.blobs[id] = NULL THEN Ok(d, "")
    ELSE Ok(d, d.blobs[id])

\* Database::fetch_blob: a NULL body does not convert to Vec<u8>
fetch_blob(d, id) ==
    IF id \notin DOMAIN d.blobs THEN Err(d, "QueryReturnedNoRows")
    ELSE IF d.blobs[id] = NULL THEN Err(d, "InvalidColumnType")
    ELSE Ok(d, d.blobs[id])

\* Database::get_script_by_name / get_file_by_name
get_script_by_name(d, tree_id, name) ==
    LET q == query_script_id_from_name(d, tree_id, name) IN
    IF q = None THEN Err(d, "No such script") ELSE fetch_blob(d, Unwrap(q))
get_file_by_name(d, tree_id, name) ==
    LET q == query_file_id_from_name(d, tree_id, name) IN
    IF q = None THEN Err(d, "No such file") ELSE fetch_blob(d, Unwrap(q))

\* Database::scripts_for_tree: the names and descriptions, a NULL desc as ""
scripts_for_tree(d, tree_id) ==
    {[name |-> r.name, description |-> IF r.desc = NULL THEN "" ELSE r.desc] :
        r \in {x \in d.tree_scripts : x.tree_id = tree_id}}

\* a variant that reports a missing name with the error the other lookups use
run_script_GenericError(d, tree_id, name) ==
    LET q == query_script_id_from_name(d, tree_id, name) IN
    IF q = None THEN Err(d, "No such script") ELSE fetch_blob(d, Unwrap(q))

\* Database::run_script up to the call of run::run_script: the bytes to run,
\* or the distinguished error when the tree has no script of that name
run_script(d, tree_id, name) ==
    LET q == query_script_id_from_name(d, tree_id, name) IN
    IF q = None THEN Err(d, "NoSuchScriptForCurrentTree") ELSE fetch_blob(d, Unwrap(q))

\* Database::query_tree: "SELECT _rowid_ FROM trees where root=?"
query_tree(d, path) == RootConflicts(d, encode_path(path))

\* Database::add_new_tree: "INSERT INTO trees (root) VALUES (?)"
\* a variant for a trees table without the unique key on root
add_new_tree_NoUnique(d, path) ==
    Ok([d EXCEPT !.trees = InsertRow(@, NewRowid(@), encode_path(path))], None)

add_new_tree(d, path) ==
    IF RootConflicts(d, encode_path(path)) # {} THEN Err(d, "Constraint")
    ELSE Ok([d EXCEPT !.trees = InsertRow(@, NewRowid(@), encode_path(path))], None)

\* a variant that deletes the tree row alone
remove_tree_KeepScripts(d, tree_id) ==
    Ok([d EXCEPT !.trees = DeleteRows(@, {tree_id})], None)

\* a variant that deletes the tree's file bindings as well
remove_tree_CascadeFiles(d, tree_id) ==
    Ok([d EXCEPT !.trees = DeleteRows(@, {tree_id}),
                 !.tree_scripts = {r \in @ : r.tree_id # tree_id},
                 !.tree_files = {r \in @ : r.tree_id # tree_id}], None)

\* Database::remove_tree: the tree row and its tree_scripts rows, in one
\* transaction; tree_files is not touched
remove_tree(d, tree_id) ==
    Ok([d EXCEPT !.trees = DeleteRows(@, {tree_id}),
                 !.tree_scripts = {r \in @ : r.tree_id # tree_id}], None)

\* Database::rename_tree: "UPDATE trees SET root=new WHERE root=old"; no row
\* changes when old_root has none, and root is UNIQUE
rename_tree(d, old_root, new_root) ==
    LET hit == RootConflicts(d, encode_path(old_root)) IN
    IF hit = {} THEN Ok(d, None)
    ELSE IF RootConflicts(d, encode_path(new_root)) \ hit # {} THEN Err(d, "Constraint")
    ELSE Ok([d EXCEPT !.trees = [i \in DOMAIN @ |->
                IF i \in hit THEN encode_path(new_root) ELSE @[i]]], None)

\* Database::get_tree_roots: "SELECT _rowid_, root FROM trees", decoded
get_tree_roots(d) == {[id |-> i, path |-> decode_path(d.trees[i])] : i \in DOMAIN d.trees}

\* Database::rename_script: "UPDATE tree_scripts SET name=?1 WHERE name=?2",
\* in every tree; a collision with a row that stays fails the whole statement
\* a variant that renames in one tree only
rename_script_OneTree(d, old_name, new_name) ==
    LET named == {r \in d.tree_scripts : r.name = old_name}
        hit == {r \in named : r.tree_id = Min({x.tree_id : x \in named})}
        renamed == {[r EXCEPT !.name = new_name] : r \in hit}
        stay == d.tree_scripts \ hit
    IN IF \E r \in renamed : BindingConflicts(stay, r.tree_id, r.name) # {}
       THEN Err(d, "Constraint")
       ELSE Ok([d EXCEPT !.tree_scripts = stay \cup renamed], None)

rename_script(d, old_name, new_name) ==
    LET hit == {r \in d.tree_scripts : r.name = old_name}
        renamed == {[r EXCEPT !.name = new_name] : r \in hit}
        stay == d.tree_scripts \ hit
    IN IF \E r \in renamed : BindingConflicts(stay, r.tree_id, r.name) # {}
       THEN Err(d, "Constraint")
       ELSE Ok([d EXCEPT !.tree_scripts = stay \cup renamed], None)

\* a variant whose second statement is INSERT OR IGNORE: an existing binding
\* of the name is kept
add_file_IgnoreExisting(d, tree_id, path, bytes) ==
    LET b == ReplaceBlob(d, bytes) IN
    IF RowsNamed(d.tree_files, tree_id, path) # {} THEN Ok(b.db, b.val)
    ELSE Ok(ReplaceFile(b.db, tree_id, path, b.val).db, b.val)

\* Database::add_file: both statements are INSERT OR REPLACE, in one
\* transaction.  val: the blob id
add_file(d, tree_id, path, bytes) ==
    LET b == ReplaceBlob(d, bytes)
        f == ReplaceFile(b.db, tree_id, path, b.val)
    IN Ok(f.db, b.val)

\* what clone_tree_table.sql does with a name the destination already has
ClonePolicies == {"skip", "overwrite"}

\* Database::clone_tree: clone_tree_table.sql copies the tree_scripts rows of
\* :src to :dst with their blob_id, name and desc
\* a variant that moves the bindings instead of copying them
clone_tree_Move(d, src_tree, dst_tree, policy) ==
    LET moved == {x \in d.tree_scripts : x.tree_id = src_tree}
        copies == {[r EXCEPT !.tree_id = dst_tree] : r \in moved}
        clash == {r \in d.tree_scripts :
                      \E c \in copies : r \in BindingConflicts(d.tree_scripts, c.tree_id, c.name)}
    IN Ok([d EXCEPT !.tree_scripts = ((@ \ clash) \ moved) \cup copies], None)

clone_tree(d, src_tree, dst_tree, policy) ==
    LET copies == {[r EXCEPT !.tree_id = dst_tree] :
                      r \in {x \in d.tree_scripts : x.tree_id = src_tree}}
        clash == {r \in d.tree_scripts :
                      \E c \in copies : r \in BindingConflicts(d.tree_scripts, c.tree_id, c.name)}
        fresh == {c \in copies : BindingConflicts(d.tree_scripts, c.tree_id, c.name) = {}}
    IN IF policy = "skip" THEN Ok([d EXCEPT !.tree_scripts = @ \cup fresh], None)
       ELSE Ok([d EXCEPT !.tree_scripts = (@ \ clash) \cup copies], None)

\* a variant that reads the ids of the wrong binding table
tree_script_blob_ids_FromFiles(d) == {r.blob_id : r \in d.tree_files}

\* Database::tree_script_blob_ids: "SELECT blob_id FROM tree_scripts"
tree_script_blob_ids(d) == {r.blob_id : r \in d.tree_scripts}

\* Database::blobs_table_len: "SELECT COUNT() FROM blobs"
blobs_table_len(d) == Cardinality(DOMAIN d.blobs)

\* a variant that deletes the row
nullify_blob_DeleteRow(d, id) == Ok([d EXCEPT !.blobs = DeleteRows(@, {id})], None)

\* Database::nullify_blob: "UPDATE blobs SET body = NULL where _rowid_=?"
nullify_blob(d, id) ==
    IF id \in DOMAIN d.blobs THEN Ok([d EXCEPT !.blobs[id] = NULL], None)
    ELSE Ok(d, None)

(***************************************************************************)
(* Root resolution (src/lib.rs).                                           *)
(***************************************************************************)
\* a variant that starts the walk at the parent of the path
RECURSIVE find_root_for_path_SkipSelf(_, _)
find_root_for_path_SkipSelf(d, path) ==
    IF parent(path) = None THEN None
    ELSE LET up == Unwrap(parent(path)) IN
         IF query_tree(d, up) # None
         THEN Some(<<Unwrap(query_tree(d, up)), up>>)
         ELSE find_root_for_path_SkipSelf(d, up)

\* find_root_for_path: the loop over path, path.parent(), ... ; the result is
\* None or Some(<<id, root path>>)
RECURSIVE find_root_for_path(_, _)
find_root_for_path(d, path) ==
    IF query_tree(d, path) # None
    THEN Some(<<Unwrap(query_tree(d, path)), path>>)
    ELSE IF parent(path) = None THEN None
    ELSE find_root_for_path(d, Unwrap(parent(path)))

(***************************************************************************)
(* The okeep commands (src/bin/okeep.rs): one action per invocation, run   *)
(* in the directory cwd.  `last` keeps what the invocation was and what    *)
(* the Database call returned to it.                                       *)
(***************************************************************************)
\* rowids start at 1: in `last`, tree 0 and blob_id 0 stand for none

\* had: whether the (tree, name) the invocation names was bound, in the kind
\* the command works on, when it started; for unestablish, whether the tree
\* had a script.  exists: for a sweep of the trees, the directories it found;
\* hit: for a rename, the trees that had a script of the old name, for a
\* clone, the names both trees had; src: for a clone, the source tree
Last(op, tree, name, body, r, ret, blob_id) ==
    [op |-> op, tree |-> tree, name |-> name, body |-> body,
     ok |-> r.ok, err |-> r.err, ret |-> ret, blob_id |-> blob_id, exists |-> {}, removed |-> {},
     hit |-> {}, src |-> 0,
     had |-> IF tree = 0 THEN FALSE
             ELSE IF op = "unestablish" THEN \E x \in db.tree_scripts : x.tree_id = tree
             ELSE IF op = "add_file" THEN RowsNamed(db.tree_files, tree, name) # {}
             ELSE RowsNamed(db.tree_scripts, tree, name) # {}]

PruneIdle == prune_pc = "idle"
PruneVars == <<prune_pc, tree_blob_refs, len, rowid>>

\* the otrun process before it is started
NotRunning ==
    [bin |-> "", pc |-> "idle", tree |-> 0, root |-> None, name |-> "", args |-> <<>>,
     had |-> FALSE, script |-> None,
     temp |-> {}, made_temp |-> FALSE, child |-> "none", argv |-> None, env |-> {},
     status |-> None, ok |-> TRUE, err |-> "", listed |-> None, exit |-> None]

\* main: "No OtKeep tree root was found" for a command that needs one
\* the invocations of establish that may run at the same time
Procs == {1, 2}
NotEstablishing == [pc |-> "idle", cwd |-> <<>>, ok |-> TRUE, err |-> ""]

\* no transaction is open
NoTx == [pc |-> "idle", op |-> "", tree |-> 0, name |-> "", body |-> "",
         blob_id |-> 0, work |-> EmptyDb]

NoRoot(op, name, body) ==
    /\ last' = Last(op, 0, name, body, Err(db, "NoRoot"), FALSE, 0)
    /\ UNCHANGED db

Init ==
    /\ db = EmptyDb
    /\ prune_pc = "idle"
    /\ tree_blob_refs = {}
    /\ len = 0
    /\ rowid = 0
    /\ last = Last("load", 0, "", "", Ok(EmptyDb, None), FALSE, 0)
    /\ otrun = NotRunning
    /\ tx = NoTx
    /\ est = [p \in Procs |-> NotEstablishing]

\* a variant that refuses a directory below a registered root as well
establish_AncestorMatch(d, current_dir) ==
    IF find_root_for_path(d, current_dir) = None THEN add_new_tree(d, current_dir)
    ELSE Err(d, "There is already a OtKeep tree root here.")

\* cmd::establish
establish(d, current_dir) ==
    IF query_tree(d, current_dir) = None THEN add_new_tree(d, current_dir)
    ELSE Err(d, "There is already a OtKeep tree root here.")

\* Sub::Establish -> cmd::establish
Establish(cwd) ==
    /\ query_tree(db, cwd) # None \/ NewRowid(db.trees) <= MaxTreeId
    /\ LET r == establish(db, cwd)
       IN /\ db' = r.db
          /\ last' = Last("establish", 0, "", "", r, FALSE, 0)
    /\ UNCHANGED <<PruneVars, otrun, tx, est>>

\* a variant that renames without asking whether the directory is a root
reestablish_NoCheck(d, current_dir, old_root) == rename_tree(d, old_root, current_dir)

\* cmd::reestablish
reestablish(d, current_dir, old_root) ==
    IF query_tree(d, current_dir) = None THEN rename_tree(d, old_root, current_dir)
    ELSE Err(d, "There is already a OtKeep tree root here.")

\* Sub::Reestablish -> cmd::reestablish; `tree` is the id old_root had, if any
Reestablish(cwd, old_root) ==
    /\ LET r == reestablish(db, cwd, old_root)
           old == query_tree(db, old_root)
       IN /\ db' = r.db
          /\ last' = Last("reestablish", IF old = None THEN 0 ELSE Unwrap(old),
                          "", "", r, FALSE, 0)
    /\ UNCHANGED <<PruneVars, otrun, tx, est>>

\* Sub::Unestablish -> cmd::unestablish, only in the root directory itself
\* a variant without the comparison of the current directory with the root
Unestablish_FromAnywhere(cwd) ==
    /\ LET opt_root == find_root_for_path(db, cwd) IN
       IF opt_root = None THEN NoRoot("unestablish", "", "")
       ELSE LET root_id == Unwrap(opt_root)[1]
                r == remove_tree(db, root_id)
            IN /\ db' = r.db
               /\ last' = Last("unestablish", root_id, "", "", r, FALSE, 0)
    /\ UNCHANGED <<PruneVars, otrun, tx, est>>

Unestablish(cwd) ==
    /\ LET opt_root == find_root_for_path(db, cwd) IN
       IF opt_root = None THEN NoRoot("unestablish", "", "")
       ELSE LET root_id == Unwrap(opt_root)[1]
                root_path == Unwrap(opt_root)[2]
            IN IF cwd # root_path
               THEN /\ last' = Last("unestablish", root_id, "", "",
                                    Err(db, "NotTheRoot"), FALSE, 0)
                    /\ UNCHANGED db
               ELSE LET r == remove_tree(db, root_id) IN
                    /\ db' = r.db
                    /\ last' = Last("unestablish", root_id, "", "", r, FALSE, 0)
    /\ UNCHANGED <<PruneVars, otrun, tx, est>>

\* Sub::Add -> cmd::add -> Database::add_script
Add(cwd, name, body) ==
    /\ NewRowid(db.blobs) <= MaxBlobId
    /\ LET opt_root == find_root_for_path(db, cwd) IN
       IF opt_root = None THEN NoRoot("add_script", name, body)
       ELSE LET root_id == Unwrap(opt_root)[1]
                r == add_script(db, root_id, name, body)
            IN /\ db' = r.db
               /\ last' = Last("add_script", root_id, name, body, r, FALSE,
                               IF r.ok THEN r.val ELSE 0)
    /\ UNCHANGED <<PruneVars, otrun, tx, est>>

\* Sub::Update -> cmd::update -> Database::update_script
Update(cwd, name, body) ==
    /\ LET opt_root == find_root_for_path(db, cwd) IN
       IF opt_root = None THEN NoRoot("update_script", name, body)
       ELSE LET root_id == Unwrap(opt_root)[1]
                r == update_script(db, root_id, name, body)
            IN /\ db' = r.db
               /\ last' = Last("update_script", root_id, name, body, r, FALSE,
                               IF r.ok THEN r.val ELSE 0)
    /\ UNCHANGED <<PruneVars, otrun, tx, est>>

\* Sub::Remove -> cmd::remove -> Database::remove_script
Remove(cwd, name) ==
    /\ LET opt_root == find_root_for_path(db, cwd) IN
       IF opt_root = None THEN NoRoot("remove_script", name, "")
       ELSE LET root_id == Unwrap(opt_root)[1]
                r == remove_script(db, root_id, name)
            IN /\ db' = r.db
               /\ last' = Last("remove_script", root_id, name, "", r, r.val, 0)
    /\ UNCHANGED <<PruneVars, otrun, tx, est>>

\* Sub::Rename -> cmd::rename -> otkeep::rename_script; `body` holds the new name
Rename(cwd, current, new) ==
    /\ LET opt_root == find_root_for_path(db, cwd) IN
       IF opt_root = None THEN NoRoot("rename_script", current, new)
       ELSE LET root_id == Unwrap(opt_root)[1]
                r == rename_script(db, current, new)
            IN /\ db' = r.db
               /\ last' = [Last("rename_script", root_id, current, new, r, FALSE, 0)
                             EXCEPT !.hit = {b.tree_id : b \in {x \in db.tree_scripts :
                                                                  x.name = current}}]
    /\ UNCHANGED <<PruneVars, otrun, tx, est>>

\* Sub::Save -> cmd::save -> otkeep::add_file -> Database::add_file
Save(cwd, path, bytes) ==
    /\ NewRowid(db.blobs) <= MaxBlobId
    /\ LET opt_root == find_root_for_path(db, cwd) IN
       IF opt_root = None THEN NoRoot("add_file", path, bytes)
       ELSE LET root_id == Unwrap(opt_root)[1]
                r == add_file(db, root_id, path, bytes)
            IN /\ db' = r.db
               /\ last' = Last("add_file", root_id, path, bytes, r, FALSE, r.val)
    /\ UNCHANGED <<PruneVars, otrun, tx, est>>

\* Sub::Clone -> cmd::clone: the tree at exactly `tree` into the current one
Clone(cwd, tree, policy) ==
    /\ LET opt_root == find_root_for_path(db, cwd) IN
       IF opt_root = None THEN NoRoot("clone_tree", "", "")
       ELSE LET dst == Unwrap(opt_root)[1]
                src == query_tree(db, tree)
                r == IF src = None THEN Err(db, "Missing tree")
                     ELSE clone_tree(db, Unwrap(src), dst, policy)
            IN /\ db' = r.db
               /\ last' = [Last("clone_tree", dst, "", policy, r, FALSE, 0) EXCEPT
                              !.src = IF src = None THEN 0 ELSE Unwrap(src),
                              !.hit = IF src = None THEN {}
                                      ELSE {x.name : x \in {y \in db.tree_scripts :
                                                 /\ y.tree_id = Unwrap(src)
                                                 /\ RowsNamed(db.tree_scripts, dst, y.name) # {}}}]
    /\ UNCHANGED <<PruneVars, otrun, tx, est>>

(***************************************************************************)
(* Sub::Prune(PruneSubCmd::Blobs): the sweep over rowids 1..=len, stopping *)
(* at each unreferenced non-NULL blob for the operator's answer.           *)
(***************************************************************************)
PruneBlobsStart ==
    /\ prune_pc = "idle"
    /\ tree_blob_refs' = tree_script_blob_ids(db)
    /\ len' = blobs_table_len(db)
    /\ rowid' = 1
    /\ prune_pc' = "loop"
    /\ last' = Last("prune_blobs", 0, "", "", Ok(db, None), FALSE, 0)
    /\ UNCHANGED <<db, otrun, tx, est>>

\* one pass of the loop head, up to the prompt
PruneBlobsReturn(r, at) ==
    /\ prune_pc' = "idle"
    /\ tree_blob_refs' = {}
    /\ len' = 0
    /\ rowid' = 0
    /\ last' = Last("prune_blobs_return", 0, "", "", r, FALSE, at)

PruneBlobsContinue(op) ==
    /\ prune_pc' = "loop"
    /\ rowid' = rowid + 1
    /\ last' = Last(op, 0, "", "", Ok(db, None), FALSE, rowid)
    /\ UNCHANGED <<tree_blob_refs, len>>

PruneBlobsLoop ==
    /\ prune_pc = "loop"
    /\ UNCHANGED <<db, otrun, tx, est>>
    /\ IF rowid > len THEN PruneBlobsReturn(Ok(db, None), 0)
       ELSE IF rowid \in tree_blob_refs THEN PruneBlobsContinue("prune_blobs_referenced")
       ELSE LET n == blob_is_null(db, rowid) IN
            IF ~n.ok THEN PruneBlobsReturn(n, rowid)
            ELSE IF n.val THEN PruneBlobsContinue("prune_blobs_null")
            ELSE /\ prune_pc' = "ask"
                 /\ last' = Last("prune_blobs_ask", 0, "", "",
                                 fetch_blob(db, rowid), FALSE, rowid)
                 /\ UNCHANGED <<tree_blob_refs, len, rowid>>

\* the operator's answer: "y" tombstones the blob, anything else keeps it
PruneBlobsAnswer(ans) ==
    /\ prune_pc = "ask"
    /\ UNCHANGED <<tree_blob_refs, len, otrun, tx, est>>
    /\ prune_pc' = "loop"
    /\ rowid' = rowid + 1
    /\ IF ans = "y"
       THEN LET r == nullify_blob(db, rowid) IN
            /\ db' = r.db
            /\ last' = Last("nullify_blob", 0, "", "", r, FALSE, rowid)
       ELSE /\ UNCHANGED db
            /\ last' = Last("prune_blobs_keep", 0, "", "", Ok(db, None), FALSE, rowid)

Answers == {"y", "n"}

(***************************************************************************)
(* A transaction statement by statement, while a second invocation runs.   *)
(* Connection::transaction opens a deferred transaction: the first write   *)
(* takes the write lock, the statements change the connection's own view   *)
(* (tx.work), commit publishes it, and dropping the transaction on an      *)
(* error (the ? operator) rolls it back.  While the lock is held no other  *)
(* invocation writes.                                                      *)
(***************************************************************************)
TxOps == {"add_script", "add_file", "remove_tree"}
TxLocked == tx.pc \in {"second", "commit"}

\* a variant in which every statement is committed on its own
visible_Autocommit(committed, work) == work

\* what the other connections see after a statement inside a transaction
visible(committed, work) == committed

\* the command has found its tree and opens the transaction
TxBegin(op, cwd, name, body) ==
    /\ tx.pc = "idle"
    /\ find_root_for_path(db, cwd) # None
    /\ op = "remove_tree" => Unwrap(find_root_for_path(db, cwd))[2] = cwd
    /\ tx' = [NoTx EXCEPT !.pc = "begun", !.op = op, !.name = name, !.body = body,
                          !.tree = Unwrap(find_root_for_path(db, cwd))[1]]
    /\ last' = Last("transaction", tx'.tree, name, body, Ok(db, None), FALSE, 0)
    /\ UNCHANGED <<db, PruneVars, otrun, est>>

\* the ? on a failed statement: the transaction is dropped and rolled back
TxRollback(e) ==
    /\ tx' = NoTx
    /\ last' = Last(tx.op, tx.tree, tx.name, tx.body, Err(db, e), FALSE, 0)
    /\ UNCHANGED db

TxStatement(pc, work, blob_id) ==
    /\ tx' = [tx EXCEPT !.pc = pc, !.work = work, !.blob_id = blob_id]
    /\ db' = visible(db, work)
    /\ last' = Last("statement", tx.tree, tx.name, tx.body, Ok(db, None), FALSE, blob_id)

\* the first statement: INSERT [OR REPLACE] INTO blobs, DELETE FROM trees
TxFirst ==
    /\ tx.pc = "begun"
    /\ tx.op # "remove_tree" => NewRowid(db.blobs) <= MaxBlobId
    /\ IF tx.op = "add_script"
       THEN LET b == InsertBlob(db, tx.body) IN
            IF b.ok THEN TxStatement("second", b.db, b.val) ELSE TxRollback(b.err)
       ELSE IF tx.op = "add_file"
       THEN LET b == ReplaceBlob(db, tx.body) IN TxStatement("second", b.db, b.val)
       ELSE TxStatement("second", [db EXCEPT !.trees = DeleteRows(@, {tx.tree})], 0)
    /\ UNCHANGED <<PruneVars, otrun, est>>

\* the second statement: INSERT [OR REPLACE] INTO tree_scripts / tree_files,
\* DELETE FROM tree_scripts
TxSecond ==
    /\ tx.pc = "second"
    /\ IF tx.op = "add_script"
       THEN LET s == InsertScript(tx.work, tx.tree, tx.name, tx.blob_id) IN
            IF s.ok THEN TxStatement("commit", s.db, tx.blob_id) ELSE TxRollback(s.err)
       ELSE IF tx.op = "add_file"
       THEN TxStatement("commit", ReplaceFile(tx.work, tx.tree, tx.name, tx.blob_id).db,
                        tx.blob_id)
       ELSE TxStatement("commit",
                        [tx.work EXCEPT !.tree_scripts = {r \in @ : r.tree_id # tx.tree}], 0)
    /\ UNCHANGED <<PruneVars, otrun, est>>

\* tx.commit()
TxCommit ==
    /\ tx.pc = "commit"
    /\ db' = tx.work
    /\ tx' = NoTx
    /\ last' = Last(tx.op, tx.tree, tx.name, tx.body, Ok(tx.work, None), FALSE, tx.blob_id)
    /\ UNCHANGED <<PruneVars, otrun, est>>

\* the second invocation reads: the length of the blobs table and the blob
\* ids the trees refer to, as prune blobs reads them
TxRead ==
    /\ tx.pc # "idle"
    /\ last' = Last("read", 0, "", "", Ok(db, None), tree_script_blob_ids(db) # {},
                    blobs_table_len(db))
    /\ UNCHANGED <<db, PruneVars, otrun, tx, est>>

(***************************************************************************)
(* cmd::establish in its two steps, for invocations that run side by side: *)
(* the query for the current directory, then, when it found no row, the    *)
(* insert.  Each statement is atomic; nothing holds the database between   *)
(* them.                                                                   *)
(***************************************************************************)
\* db.query_tree(&current_dir)?
EstQuery(p, cwd) ==
    /\ est[p].pc \in {"idle", "done"}
    /\ est' = [est EXCEPT ![p] =
                  IF query_tree(db, cwd) = None
                  THEN [pc |-> "insert", cwd |-> cwd, ok |-> TRUE, err |-> ""]
                  ELSE [pc |-> "done", cwd |-> cwd, ok |-> FALSE,
                        err |-> "There is already a OtKeep tree root here."]]
    /\ last' = Last("query_tree", 0, "", "", Ok(db, query_tree(db, cwd)), FALSE, 0)
    /\ UNCHANGED <<db, PruneVars, otrun, tx>>

\* None => db.add_new_tree(&current_dir)?
EstInsert(p) ==
    /\ est[p].pc = "insert"
    /\ query_tree(db, est[p].cwd) # None \/ NewRowid(db.trees) <= MaxTreeId
    /\ LET r == add_new_tree(db, est[p].cwd) IN
       /\ db' = r.db
       /\ est' = [est EXCEPT ![p] = [pc |-> "done", cwd |-> est[p].cwd,
                                     ok |-> r.ok, err |-> r.err]]
       /\ last' = Last("establish", 0, "", "", r, FALSE, 0)
    /\ UNCHANGED <<PruneVars, otrun, tx>>

(***************************************************************************)
(* The two sweeps as one invocation each, for runs in which nothing else   *)
(* happens during a sweep.  ans gives the operator's answer for each item, *)
(* exists the directories that are there when the sweep looks.             *)
(***************************************************************************)
\* a variant that stops after the first tree it removed
RECURSIVE prune_trees_FirstOnly(_, _, _, _)
prune_trees_FirstOnly(d, roots, exists, ans) ==
    IF roots = {} THEN Ok(d, FALSE)
    ELSE LET root == CHOOSE t \in roots : t.id = Min({u.id : u \in roots}) IN
         IF root.path \in exists THEN prune_trees_FirstOnly(d, roots \ {root}, exists, ans)
         ELSE IF ans[root.id] = "y" THEN Ok(remove_tree(d, root.id).db, TRUE)
         ELSE Ok(prune_trees_FirstOnly(d, roots \ {root}, exists, ans).db, TRUE)

\* a variant that removes a stale tree whatever the answer
RECURSIVE prune_trees_IgnoreAnswer(_, _, _, _)
prune_trees_IgnoreAnswer(d, roots, exists, ans) ==
    IF roots = {} THEN Ok(d, FALSE)
    ELSE LET root == CHOOSE t \in roots : t.id = Min({u.id : u \in roots})
             stray == root.path \notin exists
             d1 == IF stray THEN remove_tree(d, root.id).db ELSE d
             rest == prune_trees_IgnoreAnswer(d1, roots \ {root}, exists, ans)
         IN Ok(rest.db, stray \/ rest.val)

\* Sub::Prune(PruneSubCmd::Trees): the loop over the roots read at the start,
\* in rowid order; val is any_was_stray
RECURSIVE prune_trees(_, _, _, _)
prune_trees(d, roots, exists, ans) ==
    IF roots = {} THEN Ok(d, FALSE)
    ELSE LET root == CHOOSE t \in roots : t.id = Min({u.id : u \in roots})
             stray == root.path \notin exists
             d1 == IF stray /\ ans[root.id] = "y" THEN remove_tree(d, root.id).db ELSE d
             rest == prune_trees(d1, roots \ {root}, exists, ans)
         IN Ok(rest.db, stray \/ rest.val)

\* Sub::Prune(PruneSubCmd::Blobs): the loop from rowid on; val is
\* any_was_stray_and_nonnull
RECURSIVE prune_blobs(_, _, _, _, _)
prune_blobs(d, refs, n, id, ans) ==
    IF id > n THEN Ok(d, FALSE)
    ELSE IF id \in refs THEN prune_blobs(d, refs, n, id + 1, ans)
    ELSE LET null == blob_is_null(d, id) IN
         IF ~null.ok THEN Err(d, null.err)
         ELSE IF null.val THEN prune_blobs(d, refs, n, id + 1, ans)
         ELSE LET d1 == IF ans[id] = "y" THEN nullify_blob(d, id).db ELSE d
                  rest == prune_blobs(d1, refs, n, id + 1, ans)
              IN [rest EXCEPT !.val = TRUE]

Confirmed(ans) == IF \A i \in DOMAIN ans : ans[i] = "y" THEN "y" ELSE "n"

\* had: the sweep runs directly after a sweep of the same kind, over the same
\* directories, in which every item was confirmed; removed: the trees the
\* sweep unregistered
PruneTrees(exists, ans) ==
    /\ LET r == prune_trees(db, get_tree_roots(db), exists, ans) IN
       /\ db' = r.db
       /\ last' = [Last("prune_trees", 0, "", Confirmed(ans), r, r.val, 0) EXCEPT
                      !.exists = exists,
                      !.removed = DOMAIN db.trees \ DOMAIN r.db.trees,
                      !.had = (last.op = "prune_trees" /\ last.body = "y"
                               /\ last.exists = exists)]
    /\ UNCHANGED <<PruneVars, otrun, tx, est>>

PruneBlobs(ans) ==
    /\ LET r == prune_blobs(db, tree_script_blob_ids(db), blobs_table_len(db), 1, ans) IN
       /\ db' = r.db
       /\ last' = [Last("prune_blobs_all", 0, "", Confirmed(ans), r,
                        IF r.ok THEN r.val ELSE FALSE, 0) EXCEPT
                      !.had = (last.op = "prune_blobs_all" /\ last.body = "y")]
    /\ UNCHANGED <<PruneVars, otrun, tx, est>>

(***************************************************************************)
(* otrun (src/bin/otrun.rs) and run::run_script (src/run.rs): the script   *)
(* is written into a temporary directory and run by a child `sh`; the      *)
(* runner waits for it and exits with its code.                            *)
(***************************************************************************)
Codes == {0, 1, 2}                       \* exit codes of the child
Statuses == {None} \cup {Some(c) : c \in Codes}   \* ExitStatus::code()
WriteOutcomes == {"written", "create_failed", "write_failed"}
Args == {<<>>, <<"1", "2">>}             \* the arguments after the script name

\* a variant that leaks the directory (TempDir::leak)
TempDir_drop_Leak(temp) == temp

\* Drop of temp_dir::TempDir at the end of run::run_script: the directory and
\* what is in it are removed
TempDir_drop(temp) == {}

\* a variant that reports success or failure only
run_ZeroOrOne(d, root_id, r) ==
    IF r.ok THEN [ok |-> TRUE, code |-> IF r.status = Some(0) THEN 0 ELSE 1, listed |-> None]
    ELSE IF r.err = "NoSuchScriptForCurrentTree"
    THEN [ok |-> TRUE, code |-> 1, listed |-> Some(scripts_for_tree(d, root_id))]
    ELSE [ok |-> FALSE, code |-> 0, listed |-> None]

\* otrun's run, on the Result r of Database::run_script: Ok(code), with the
\* scripts it listed on stderr if it did, or the error passed on
run(d, root_id, r) ==
    IF r.ok THEN [ok |-> TRUE, code |-> IF r.status = None THEN 1 ELSE Unwrap(r.status),
                  listed |-> None]
    ELSE IF r.err = "NoSuchScriptForCurrentTree"
    THEN [ok |-> TRUE, code |-> 1, listed |-> Some(scripts_for_tree(d, root_id))]
    ELSE [ok |-> FALSE, code |-> 0, listed |-> None]

\* otrun's main, on the Result of try_main: the code the process exits with
main(r) == IF r.ok THEN r.code ELSE 1

RunIdle == otrun.pc \in {"idle", "exited"}

\* try_main up to the point where Database::run_script has the bytes
OtrunStart(cwd, name, args) ==
    /\ RunIdle
    /\ LET opt_root == find_root_for_path(db, cwd) IN
       IF opt_root = None
       THEN otrun' = [NotRunning EXCEPT !.bin = "otrun",
                                      !.pc = "exited", !.name = name, !.args = args,
                                      !.ok = FALSE, !.err = "NoRoot",
                                      !.exit = Some(main([ok |-> FALSE, code |-> 0]))]
       ELSE LET root_id == Unwrap(opt_root)[1]
                r == run_script(db, root_id, name)
                started == [NotRunning EXCEPT
                               !.bin = "otrun",
                               !.tree = root_id, !.root = Some(Unwrap(opt_root)[2]),
                               !.name = name, !.args = args,
                               !.had = RowsNamed(db.tree_scripts, root_id, name) # {}]
            IN IF r.ok
               THEN otrun' = [started EXCEPT !.pc = "temp_dir", !.script = Some(r.val)]
               ELSE otrun' = [started EXCEPT !.pc = "returned", !.ok = FALSE, !.err = r.err]
    /\ UNCHANGED <<db, PruneVars, last, tx, est>>

\* try_main without a script name: the scripts are listed, exit code 1
OtrunNoArgs(cwd) ==
    /\ RunIdle
    /\ LET opt_root == find_root_for_path(db, cwd) IN
       IF opt_root = None
       THEN otrun' = [NotRunning EXCEPT !.bin = "otrun",
                                      !.pc = "exited", !.ok = FALSE, !.err = "NoRoot",
                                      !.exit = Some(main([ok |-> FALSE, code |-> 0]))]
       ELSE LET root_id == Unwrap(opt_root)[1] IN
            otrun' = [NotRunning EXCEPT
                       !.bin = "otrun",
                       !.pc = "exited", !.tree = root_id,
                       !.listed = Some(scripts_for_tree(db, root_id)),
                       !.exit = Some(main([ok |-> TRUE, code |-> 1]))]
    /\ UNCHANGED <<db, PruneVars, last, tx, est>>

RunFails(pc) == otrun' = [otrun EXCEPT !.pc = pc, !.ok = FALSE, !.err = "Io"]

\* run::run_script: TempDir::new()?
RunScriptTempDir(created) ==
    /\ otrun.pc = "temp_dir"
    /\ IF created
       THEN otrun' = [otrun EXCEPT !.pc = "write", !.temp = {"dir"}, !.made_temp = TRUE]
       ELSE RunFails("returned")
    /\ UNCHANGED <<db, PruneVars, last, tx, est>>

\* run::run_script: std::fs::write(&path, script)?; a failed write may leave
\* the file behind
RunScriptWrite(outcome) ==
    /\ otrun.pc = "write"
    /\ IF outcome = "written"
       THEN otrun' = [otrun EXCEPT !.pc = "spawn", !.temp = @ \cup {"script"}]
       ELSE IF outcome = "write_failed"
       THEN otrun' = [otrun EXCEPT !.pc = "drop", !.ok = FALSE, !.err = "Io",
                               !.temp = @ \cup {"script"}]
       ELSE RunFails("drop")
    /\ UNCHANGED <<db, PruneVars, last, tx, est>>

\* script_command with the closure of run::run_script: `sh` is given the
\* path of the script file and then the arguments; Command::env is not
\* called, so env, the variables set for the child, is empty
script_command(path, args) ==
    [program |-> "sh", argv |-> <<path>> \o args, env |-> {}]

\* temp_dir.child("script.<ext>")
ScriptPath == "script"

\* run::run_script: Command::status(), the spawn of `sh`
RunScriptSpawn(spawned) ==
    /\ otrun.pc = "spawn"
    /\ IF spawned
       THEN LET cmd == script_command(ScriptPath, otrun.args) IN
            otrun' = [otrun EXCEPT !.pc = "wait", !.child = "running",
                                   !.argv = Some(cmd.argv), !.env = cmd.env]
       ELSE RunFails("drop")
    /\ UNCHANGED <<db, PruneVars, last, tx, est>>

\* run::run_script: Command::status(), the wait; the child ends with an exit
\* code or by a signal
RunScriptWait(status) ==
    /\ otrun.pc = "wait"
    /\ otrun' = [otrun EXCEPT !.pc = "drop", !.child = "done", !.status = status]
    /\ UNCHANGED <<db, PruneVars, last, tx, est>>

\* run::run_script returns: temp_dir goes out of scope
RunScriptDrop ==
    /\ otrun.pc = "drop"
    /\ otrun' = [otrun EXCEPT !.pc = "returned", !.temp = TempDir_drop(@)]
    /\ UNCHANGED <<db, PruneVars, last, tx, est>>

\* otrun's run and main on what Database::run_script returned
OtrunExit ==
    /\ otrun.bin = "otrun" /\ otrun.pc = "returned"
    /\ LET r == run(db, otrun.tree, [ok |-> otrun.ok, err |-> otrun.err, status |-> otrun.status])
       IN otrun' = [otrun EXCEPT !.pc = "exited", !.listed = r.listed, !.exit = Some(main(r))]
    /\ UNCHANGED <<db, PruneVars, last, tx, est>>

(***************************************************************************)
(* orun (src/bin/orun.rs): the runner that is replaced by the script.  Its *)
(* Database::run_script has the type Result<!>: it returns errors only.    *)
(***************************************************************************)
\* a variant that ends normally after the hint for a missing script
orun_run_FallThrough(d, root_id, r) ==
    IF r.err = "NoSuchScriptForCurrentTree"
    THEN [returns |-> FALSE, code |-> 0, listed |-> Some(scripts_for_tree(d, root_id))]
    ELSE [returns |-> TRUE, code |-> 1, listed |-> None]

\* orun's run, on the error r that Database::run_script returned: for a
\* missing script it lists the scripts and calls exit(1) itself; any other
\* error it returns, and main then exits with 1
orun_run(d, root_id, r) ==
    IF r.err = "NoSuchScriptForCurrentTree"
    THEN [returns |-> FALSE, code |-> 1, listed |-> Some(scripts_for_tree(d, root_id))]
    ELSE [returns |-> TRUE, code |-> 1, listed |-> None]

\* orun's try_main up to the point where Database::run_script has the bytes
OrunStart(cwd, name, args) ==
    /\ RunIdle
    /\ LET opt_root == find_root_for_path(db, cwd) IN
       IF opt_root = None
       THEN otrun' = [NotRunning EXCEPT !.bin = "orun",
                                      !.pc = "exited", !.name = name, !.args = args,
                                      !.ok = FALSE, !.err = "NoRoot", !.exit = Some(1)]
       ELSE LET root_id == Unwrap(opt_root)[1]
                r == run_script(db, root_id, name)
                started == [NotRunning EXCEPT
                               !.bin = "orun",
                               !.tree = root_id, !.root = Some(Unwrap(opt_root)[2]),
                               !.name = name, !.args = args,
                               !.had = RowsNamed(db.tree_scripts, root_id, name) # {}]
            IN IF r.ok
               THEN otrun' = [started EXCEPT !.pc = "exec", !.script = Some(r.val)]
               ELSE otrun' = [started EXCEPT !.pc = "returned", !.ok = FALSE, !.err = r.err]
    /\ UNCHANGED <<db, PruneVars, last, tx, est>>

\* orun's try_main without a script name: the scripts are listed, exit(1)
OrunNoArgs(cwd) ==
    /\ RunIdle
    /\ LET opt_root == find_root_for_path(db, cwd) IN
       IF opt_root = None
       THEN otrun' = [NotRunning EXCEPT !.bin = "orun",
                                      !.pc = "exited", !.ok = FALSE, !.err = "NoRoot",
                                      !.exit = Some(1)]
       ELSE LET root_id == Unwrap(opt_root)[1] IN
            otrun' = [NotRunning EXCEPT
                       !.bin = "orun",
                       !.pc = "exited", !.tree = root_id,
                       !.listed = Some(scripts_for_tree(db, root_id)),
                       !.exit = Some(1)]
    /\ UNCHANGED <<db, PruneVars, last, tx, est>>

\* the replacing run_script: the process image becomes the script, or the
\* exec fails and the error is returned
OrunExec(replaced) ==
    /\ otrun.pc = "exec"
    /\ IF replaced
       THEN otrun' = [otrun EXCEPT !.pc = "replaced", !.child = "running",
                                   !.argv = Some(<<ScriptPath>> \o otrun.args)]
       ELSE RunFails("returned")
    /\ UNCHANGED <<db, PruneVars, last, tx, est>>

\* the script that replaced the runner ends: its status is the process's
OrunReplacedEnds(status) ==
    /\ otrun.pc = "replaced"
    /\ otrun' = [otrun EXCEPT !.pc = "exited", !.child = "done", !.status = status,
                               !.exit = status]
    /\ UNCHANGED <<db, PruneVars, last, tx, est>>

\* orun's run and main on the error Database::run_script returned
OrunExit ==
    /\ otrun.bin = "orun" /\ otrun.pc = "returned"
    /\ LET r == orun_run(db, otrun.tree, [ok |-> otrun.ok, err |-> otrun.err])
       IN otrun' = [otrun EXCEPT !.pc = "exited", !.listed = r.listed,
                                 !.exit = Some(r.code)]
    /\ UNCHANGED <<db, PruneVars, last, tx, est>>

\* one invocation at a time: a command runs only while no sweep is running
Next ==
    \/ \E cwd \in Cwds : PruneIdle /\ Establish(cwd)
    \/ \E cwd \in Cwds, old_root \in Cwds : PruneIdle /\ Reestablish(cwd, old_root)
    \/ \E cwd \in Cwds : PruneIdle /\ Unestablish(cwd)
    \/ \E cwd \in Cwds, name \in Names, body \in Bodies : PruneIdle /\ Add(cwd, name, body)
    \/ \E cwd \in Cwds, name \in Names, body \in Bodies : PruneIdle /\ Update(cwd, name, body)
    \/ \E cwd \in Cwds, name \in Names : PruneIdle /\ Remove(cwd, name)
    \/ \E cwd \in Cwds, current \in Names, new \in Names : PruneIdle /\ Rename(cwd, current, new)
    \/ \E cwd \in Cwds, path \in Names, bytes \in Bodies : PruneIdle /\ Save(cwd, path, bytes)
    \/ \E cwd \in Cwds, tree \in Cwds, policy \in ClonePolicies :
           PruneIdle /\ Clone(cwd, tree, policy)
    \/ PruneBlobsStart
    \/ PruneBlobsLoop
    \/ \E ans \in Answers : PruneBlobsAnswer(ans)

Spec == Init /\ [][Next]_vars

\* the tree registry alone, over every directory
NextTrees ==
    \/ \E cwd \in Paths : Establish(cwd)
    \/ \E cwd \in Paths, old_root \in Paths : Reestablish(cwd, old_root)
    \/ \E cwd \in Paths : Unestablish(cwd)

SpecTrees == Init /\ [][NextTrees]_vars

\* the runner, with the commands that give it scripts to run; a command runs
\* only while no runner is between its start and its exit
NextRun ==
    \/ \E cwd \in Cwds : RunIdle /\ Establish(cwd)
    \/ \E cwd \in Cwds, name \in Names, body \in Bodies : RunIdle /\ Add(cwd, name, body)
    \/ \E cwd \in Cwds, path \in Names, bytes \in Bodies : RunIdle /\ Save(cwd, path, bytes)
    \/ \E cwd \in Cwds, name \in Names, args \in Args : OtrunStart(cwd, name, args)
    \/ \E cwd \in Cwds : OtrunNoArgs(cwd)
    \/ \E created \in BOOLEAN : RunScriptTempDir(created)
    \/ \E outcome \in WriteOutcomes : RunScriptWrite(outcome)
    \/ \E spawned \in BOOLEAN : RunScriptSpawn(spawned)
    \/ \E status \in Statuses : RunScriptWait(status)
    \/ RunScriptDrop
    \/ OtrunExit

SpecRun == Init /\ [][NextRun]_vars

\* a transaction in steps next to a second invocation, which writes only
\* while the write lock is free
NextTx ==
    \/ /\ ~TxLocked
       /\ \/ \E cwd \in Cwds : Establish(cwd)
          \/ \E cwd \in Cwds : Unestablish(cwd)
          \/ \E cwd \in Cwds, name \in Names, body \in Bodies : Add(cwd, name, body)
          \/ \E cwd \in Cwds, path \in Names, bytes \in Bodies : Save(cwd, path, bytes)
    \/ \E op \in TxOps, cwd \in Cwds, name \in Names, body \in Bodies :
           TxBegin(op, cwd, name, body)
    \/ TxFirst
    \/ TxSecond
    \/ TxCommit
    \/ TxRead

SpecTx == Init /\ [][NextTx]_vars

\* the sweep of the blobs in steps while a second invocation runs commands
\* between them
NextConc ==
    \/ \E cwd \in Cwds : Establish(cwd)
    \/ \E cwd \in Cwds, name \in Names, body \in Bodies : Add(cwd, name, body)
    \/ \E cwd \in Cwds, name \in Names : Remove(cwd, name)
    \/ \E cwd \in Cwds, path \in Names, bytes \in Bodies : Save(cwd, path, bytes)
    \/ \E cwd \in Cwds, tree \in Cwds, policy \in ClonePolicies : Clone(cwd, tree, policy)
    \/ PruneBlobsStart
    \/ PruneBlobsLoop
    \/ \E ans \in Answers : PruneBlobsAnswer(ans)

SpecConc == Init /\ [][NextConc]_vars

\* establish in steps in two invocations, with unestablish between
NextEst ==
    \/ \E p \in Procs, cwd \in Paths : EstQuery(p, cwd)
    \/ \E p \in Procs : EstInsert(p)
    \/ \E cwd \in Cwds : Unestablish(cwd)

SpecEst == Init /\ [][NextEst]_vars

\* the sweeps, with the commands that give them something to find
NextPrune ==
    \/ \E cwd \in Cwds : Establish(cwd)
    \/ \E cwd \in Cwds, name \in Names, body \in Bodies : Add(cwd, name, body)
    \/ \E cwd \in Cwds, name \in Names : Remove(cwd, name)
    \/ \E cwd \in Cwds, path \in Names, bytes \in Bodies : Save(cwd, path, bytes)
    \/ \E exists \in SUBSET Cwds, ans \in [DOMAIN db.trees -> Answers] :
           PruneTrees(exists, ans)
    \/ \E ans \in [1..blobs_table_len(db) -> Answers] : PruneBlobs(ans)

SpecPrune == Init /\ [][NextPrune]_vars

\* the replacing runner, with the commands that give it scripts to run
NextOrun ==
    \/ \E cwd \in Cwds : RunIdle /\ Establish(cwd)
    \/ \E cwd \in Cwds, name \in Names, body \in Bodies : RunIdle /\ Add(cwd, name, body)
    \/ \E cwd \in Cwds, path \in Names, bytes \in Bodies : RunIdle /\ Save(cwd, path, bytes)
    \/ \E cwd \in Cwds, name \in Names, args \in Args : OrunStart(cwd, name, args)
    \/ \E cwd \in Cwds : OrunNoArgs(cwd)
    \/ \E replaced \in BOOLEAN : OrunExec(replaced)
    \/ \E status \in Statuses : OrunReplacedEnds(status)
    \/ OrunExit

SpecOrun == Init /\ [][NextOrun]_vars

(***************************************************************************)
(* Properties.                                                             *)
(***************************************************************************)
\* the invocation l found the tree it works on
Resolved(l) == l.tree > 0
\* the call returned Ok(v)
Returns(r, v) == r.ok /\ r.val = v
AllBindings == db.tree_scripts \cup db.tree_files

\* C1: the orphan-blob sweep never tombstones a blob id that a script binding
\* references, whatever commands ran before it and whatever was answered.
C1_PruneNeverTombstonesReferenced ==
    last.op = "nullify_blob" => last.blob_id \notin {r.blob_id : r \in db.tree_scripts}

\* a sweep tombstoned one blob and passed over another that a script references
C1_Witness ==
    /\ last.op = "nullify_blob"
    /\ db.blobs[last.blob_id] = NULL
    /\ \E r \in db.tree_scripts :
           r.blob_id < last.blob_id /\ r.blob_id \in DOMAIN db.blobs /\ db.blobs[r.blob_id] # NULL

\* C2: a blob that a binding of either kind references is never tombstoned.
C2_ReferencedBlobNeverTombstoned ==
    \A r \in AllBindings : r.blob_id \in DOMAIN db.blobs => db.blobs[r.blob_id] # NULL

IsAncestorOrSelf(q, path) == Len(q) <= Len(path) /\ SubSeq(path, 1, Len(q)) = q
RegisteredAncestors(path) ==
    {q \in Paths : IsAncestorOrSelf(q, path) /\ \E i \in DOMAIN db.trees : decode_path(db.trees[i]) = q}

\* C3: resolve(path) is the registered tree at the nearest ancestor of path,
\* path included, with that root; none iff no ancestor is registered.
C3_ResolveNearestAncestor ==
    \A path \in Paths :
        LET anc == RegisteredAncestors(path)
            res == find_root_for_path(db, path)
        IN IF anc = {} THEN res = None
           ELSE \E q \in anc :
                  /\ \A q2 \in anc : Len(q2) <= Len(q)
                  /\ \E i \in DOMAIN db.trees :
                         decode_path(db.trees[i]) = q /\ res = Some(<<i, q>>)

\* two nested roots are registered: the inner one resolves to itself, a
\* sibling of it to the outer one, and a directory beside the outer one and
\* the directory above it to nothing
C3_Witness ==
    /\ Cardinality(DOMAIN db.trees) = 2
    /\ \E i, j \in DOMAIN db.trees :
           /\ db.trees[i] = encode_path(<<"a">>)
           /\ db.trees[j] = encode_path(<<"a", "a">>)
           /\ find_root_for_path(db, <<"a", "a">>) = Some(<<j, <<"a", "a">>>>)
           /\ find_root_for_path(db, <<"a", "b">>) = Some(<<i, <<"a">>>>)
    /\ find_root_for_path(db, <<"b">>) = None
    /\ find_root_for_path(db, <<>>) = None

\* C4: storing a content that is already stored gives the id it already has
\* and adds no blob row; storing a new content adds exactly one row.
C4_SameContentSameId ==
    [][(/\ last'.op \in {"add_script", "add_file"}
        /\ Resolved(last')
        /\ ~last'.had)
       => LET stored == BodyConflicts(db, last'.body) IN
          /\ last'.ok
          /\ stored # {} => /\ last'.blob_id \in stored
                            /\ blobs_table_len(db') = blobs_table_len(db)
          /\ stored = {} => blobs_table_len(db') = blobs_table_len(db) + 1]_vars

\* C5: a successful add followed by get of the same (tree, name) returns the
\* bytes that were added, for scripts and for files.
C5_AddThenGet ==
    /\ (last.op = "add_script" /\ last.ok) =>
           Returns(get_script_by_name(db, last.tree, last.name), last.body)
    /\ (last.op = "add_file" /\ last.ok) =>
           Returns(get_file_by_name(db, last.tree, last.name), last.body)

\* a second script was added to a tree and reads back
C5_Witness ==
    /\ last.op = "add_script" /\ last.ok /\ last.blob_id = 2
    /\ Returns(get_script_by_name(db, last.tree, last.name), last.body)
    /\ Cardinality(RowsNamed(db.tree_scripts, last.tree, last.name)) = 1
    /\ \E r \in db.tree_scripts : r.tree_id = last.tree /\ r.name # last.name

UniqueNames(rows) ==
    \A r1, r2 \in rows : (r1.tree_id = r2.tree_id /\ r1.name = r2.name) => r1 = r2

\* C6: within each binding kind there is at most one binding per
\* (tree id, name), after any adds, renames, clones and removes.
C6_BindingNamesUnique == UniqueNames(db.tree_scripts) /\ UniqueNames(db.tree_files)

\* a rename onto a name the same tree already has was refused
C6_Witness ==
    /\ last.op = "rename_script" /\ last.err = "Constraint"
    /\ \E r1, r2 \in db.tree_scripts :
           r1.tree_id = r2.tree_id /\ r1.name = last.name /\ r2.name = last.body

\* C7: adding a script under a (tree, name) that has one fails with a
\* constraint error and leaves every table as it was.
C7_DuplicateScriptAddFails ==
    [][(last'.op = "add_script" /\ Resolved(last') /\ last'.had)
       => (~last'.ok /\ last'.err = "Constraint" /\ db' = db)]_vars

\* an add was refused for its name alone: its content was not stored before
C7_Witness ==
    /\ last.op = "add_script" /\ last.had /\ ~last.ok
    /\ BodyConflicts(db, last.body) = {}
    /\ RowsNamed(db.tree_scripts, last.tree, last.name) # {}

\* C8 as claimed: saving a file under a (tree, name) that has one fails and
\* leaves the file bindings as they were.
C8_DuplicateFileSaveFails ==
    [][(last'.op = "add_file" /\ Resolved(last') /\ last'.had)
       => (~last'.ok /\ db'.tree_files = db.tree_files)]_vars

\* C8 amended: saving a file under a (tree, name) that has one succeeds and
\* replaces the binding by one to a newly inserted blob row, so that get
\* returns the bytes just saved.
C8_DuplicateFileSaveReplaces ==
    [][(last'.op = "add_file" /\ Resolved(last') /\ last'.had)
       => /\ last'.ok
          /\ last'.blob_id \notin DOMAIN db.blobs
          /\ RowsNamed(db'.tree_files, last'.tree, last'.name)
                 = {Binding(last'.tree, last'.name, last'.blob_id)}
          /\ Returns(get_file_by_name(db', last'.tree, last'.name), last'.body)]_vars

\* a file name was saved again with other bytes
C8_Witness ==
    /\ last.op = "add_file" /\ last.had /\ last.ok
    /\ \E i \in DOMAIN db.blobs : i # last.blob_id /\ db.blobs[i] \notin {NULL, last.body}
    /\ Returns(get_file_by_name(db, last.tree, last.name), last.body)

\* C9: remove returns true exactly when the tree had a script of that name,
\* deletes that binding alone, and never fails.
C9_RemoveReturnsWhetherDeleted ==
    [][(last'.op = "remove_script" /\ Resolved(last'))
       => LET rows == RowsNamed(db.tree_scripts, last'.tree, last'.name) IN
          /\ last'.ok
          /\ last'.ret = (rows # {})
          /\ db'.tree_scripts = db.tree_scripts \ rows
          /\ db'.blobs = db.blobs
          /\ db'.trees = db.trees
          /\ db'.tree_files = db.tree_files]_vars

\* a script was removed from one tree while another tree keeps its script of
\* the same name
C9_Witness ==
    /\ last.op = "remove_script" /\ last.ret /\ last.had
    /\ RowsNamed(db.tree_scripts, last.tree, last.name) = {}
    /\ \E r \in db.tree_scripts : r.name = last.name /\ r.tree_id # last.tree

\* C10: after a successful update the binding has the blob id it had, and get
\* on every binding with that blob id returns the new bytes.
C10_UpdateSharedContent ==
    (last.op = "update_script" /\ last.ok) =>
        /\ query_script_id_from_name(db, last.tree, last.name) = Some(last.blob_id)
        /\ \A r \in AllBindings :
               r.blob_id = last.blob_id => Returns(fetch_blob(db, r.blob_id), last.body)

\* C11: update on a name that has no script in the resolved tree fails with
\* "No such script" and changes no table, whatever the other trees hold.
C11_UpdateMissingFails ==
    [][(last'.op = "update_script" /\ Resolved(last') /\ ~last'.had)
       => (~last'.ok /\ last'.err = "No such script" /\ db' = db)]_vars

\* an update was refused in a tree without the name while another tree has a
\* script of that name whose content is not the one given
C11_Witness ==
    /\ last.op = "update_script" /\ ~last.had /\ last.err = "No such script"
    /\ \E r \in db.tree_scripts :
           /\ r.name = last.name /\ r.tree_id # last.tree
           /\ r.blob_id \in DOMAIN db.blobs /\ db.blobs[r.blob_id] # last.body
    /\ RowsNamed(db.tree_files, last.tree, last.name) # {}

IsRoot(d, path) == \E i \in DOMAIN d.trees : decode_path(d.trees[i]) = path

\* C12: establish fails with "already a root", leaving every table as it was,
\* exactly when the directory itself is a registered root; in a directory
\* that is only below or above a registered root it succeeds and adds one
\* tree row with an id no other row has.
C12_EstablishExactMatchOnly ==
    [][last'.op = "establish" =>
       \A cwd \in Paths : Establish(cwd) =>
          IF IsRoot(db, cwd)
          THEN /\ ~last'.ok
               /\ last'.err = "There is already a OtKeep tree root here."
               /\ db' = db
          ELSE /\ last'.ok
               /\ \E i \in DOMAIN db'.trees \ DOMAIN db.trees :
                      db'.trees = InsertRow(db.trees, i, encode_path(cwd))
               /\ db'.blobs = db.blobs
               /\ db'.tree_scripts = db.tree_scripts
               /\ db'.tree_files = db.tree_files]_vars

\* establish was refused in a root while a root directly above another one is
\* registered, the upper one after the lower one
C12_Witness ==
    /\ last.op = "establish" /\ ~last.ok
    /\ \E i, j \in DOMAIN db.trees :
           /\ i < j
           /\ Len(decode_path(db.trees[j])) < Len(decode_path(db.trees[i]))
           /\ IsAncestorOrSelf(decode_path(db.trees[j]), decode_path(db.trees[i]))

\* C13: after a successful unestablish the tree's row is gone (its path has
\* no tree, and neither the id nor the path is among the listed roots) and
\* no script binding has its id.
C13_UnestablishRemovesTreeAndScripts ==
    [][(last'.op = "unestablish" /\ last'.ok)
       => LET path == decode_path(db.trees[last'.tree]) IN
          /\ query_tree(db', path) = None
          /\ \A t \in get_tree_roots(db') : t.id # last'.tree /\ t.path # path
          /\ \A r \in db'.tree_scripts : r.tree_id # last'.tree]_vars

\* a tree that had a script was unestablished and no longer resolves, while
\* another tree keeps a script
C13_Witness ==
    /\ last.op = "unestablish" /\ last.ok /\ last.had
    /\ last.tree \notin DOMAIN db.trees
    /\ \E r \in db.tree_scripts : r.tree_id \in DOMAIN db.trees

\* C14: unestablish deletes the tree's row and its script bindings and
\* nothing else: the blobs table, the file bindings (those of the removed
\* tree too) and the rows and script bindings of the other trees stay.
C14_UnestablishFrame ==
    [][(last'.op = "unestablish" /\ last'.ok)
       => /\ db'.blobs = db.blobs
          /\ db'.tree_files = db.tree_files
          /\ \A i \in DOMAIN db.trees \ {last'.tree} :
                 i \in DOMAIN db'.trees /\ db'.trees[i] = db.trees[i]
          /\ {r \in db'.tree_scripts : r.tree_id # last'.tree}
                 = {r \in db.tree_scripts : r.tree_id # last'.tree}]_vars

\* a tree with a script and a file was unestablished: the file binding and
\* the blobs of both are still there, and so is the other tree
C14_Witness ==
    /\ last.op = "unestablish" /\ last.ok /\ last.had
    /\ \E f \in db.tree_files :
           f.tree_id = last.tree /\ f.blob_id \in DOMAIN db.blobs /\ db.blobs[f.blob_id] # NULL
    /\ Cardinality(DOMAIN db.blobs) = 2
    /\ DOMAIN db.trees # {}

\* C15: reestablish in a directory that is a registered root fails with
\* "already a root" and changes nothing; otherwise the tree registered at
\* old_root keeps its id and every binding, the directory now has that id
\* and old_root has no tree.
C15_ReestablishRekeys ==
    [][last'.op = "reestablish" =>
       \A cwd \in Paths, old_root \in Paths : Reestablish(cwd, old_root) =>
          IF IsRoot(db, cwd)
          THEN /\ ~last'.ok
               /\ last'.err = "There is already a OtKeep tree root here."
               /\ db' = db
          ELSE IsRoot(db, old_root) =>
               \E id \in DOMAIN db.trees :
                   /\ decode_path(db.trees[id]) = old_root
                   /\ last'.ok
                   /\ query_tree(db', cwd) = Some(id)
                   /\ query_tree(db', old_root) = None
                   /\ DOMAIN db'.trees = DOMAIN db.trees
                   /\ \A i \in DOMAIN db.trees \ {id} : db'.trees[i] = db.trees[i]
                   /\ db'.tree_scripts = db.tree_scripts
                   /\ db'.tree_files = db.tree_files
                   /\ db'.blobs = db.blobs]_vars

\* a tree with a script and a file was moved to the directory the command
\* ran in, and both still read back there
C15_Witness ==
    /\ last.op = "reestablish" /\ last.ok /\ Resolved(last)
    /\ last.tree \in DOMAIN db.trees
    /\ \E r \in db.tree_scripts :
           r.tree_id = last.tree /\ get_script_by_name(db, last.tree, r.name).ok
    /\ \E f \in db.tree_files :
           f.tree_id = last.tree /\ get_file_by_name(db, last.tree, f.name).ok

\* the rowids a caller may ask for: those handed out, 0 and one past the bound
BlobIds == 0..(MaxBlobId + 1)

\* C17: fetch_blob returns bytes exactly for a row that exists and whose body
\* is not NULL, and an error without bytes for a missing or tombstoned id;
\* blob_is_null answers true exactly for an existing row whose body is NULL.
C17_FetchFailsOnMissingOrTombstoned ==
    \A id \in BlobIds :
        LET f == fetch_blob(db, id)
            n == blob_is_null(db, id)
            has == id \in DOMAIN db.blobs
        IN /\ f.ok <=> (has /\ db.blobs[id] # NULL)
           /\ f.ok => f.val = db.blobs[id] /\ f.val \in Bodies
           /\ ~f.ok => f.val = None
           /\ (n.ok /\ n.val = TRUE) <=> (has /\ db.blobs[id] = NULL)

\* one blob is tombstoned and cannot be fetched, one stored blob is empty and
\* is fetched as the empty byte sequence, and the next rowid has no row
C17_Witness ==
    /\ \E id \in DOMAIN db.blobs :
           db.blobs[id] = NULL /\ ~fetch_blob(db, id).ok /\ Returns(blob_is_null(db, id), TRUE)
    /\ \E id \in DOMAIN db.blobs :
           Returns(fetch_blob(db, id), "") /\ Returns(blob_is_null(db, id), FALSE)
    /\ \E id \in BlobIds \ DOMAIN db.blobs : id > 0 /\ ~blob_is_null(db, id).ok

Tombstoned(d) == {id \in DOMAIN d.blobs : d.blobs[id] = NULL}

\* C18: nullify_blob makes the body NULL and keeps the row: the table length
\* and the rowids stay, and so does every binding; a tombstoned rowid keeps
\* its row from then on, so that a later add never gets it.
C18_TombstoneKeepsRow ==
    [][/\ last'.op = "nullify_blob" =>
           /\ last'.ok
           /\ blobs_table_len(db') = blobs_table_len(db)
           /\ DOMAIN db'.blobs = DOMAIN db.blobs
           /\ db.blobs[last'.blob_id] # NULL /\ db'.blobs[last'.blob_id] = NULL
           /\ \A i \in DOMAIN db.blobs \ {last'.blob_id} : db'.blobs[i] = db.blobs[i]
           /\ db'.tree_scripts = db.tree_scripts
           /\ db'.tree_files = db.tree_files
       /\ Tombstoned(db) \subseteq DOMAIN db'.blobs
       /\ (last'.op \in {"add_script", "add_file"} /\ last'.ok)
             => last'.blob_id \notin Tombstoned(db)]_vars

\* a blob that a file binding points at was tombstoned; the binding still
\* points at it and a later add got the next rowid
C18_Witness ==
    /\ last.op \in {"add_script", "add_file"} /\ last.ok
    /\ \E f \in db.tree_files :
           /\ f.blob_id \in Tombstoned(db)
           /\ last.blob_id > f.blob_id
    /\ blobs_table_len(db) = 2

\* C16: otrun of a name gets the NoSuchScriptForCurrentTree error exactly
\* when the resolved tree has no script of that name; then no temporary
\* directory is made and no child is started, and the runner lists the
\* scripts of the tree and exits with code 1.
C16_MissingScriptDistinguished ==
    [][(otrun' # otrun /\ otrun'.tree > 0 /\ otrun'.name # "")
       => LET missing == RowsNamed(db.tree_scripts, otrun'.tree, otrun'.name) = {} IN
          /\ (otrun'.err = "NoSuchScriptForCurrentTree") <=> missing
          /\ missing =>
               /\ otrun'.pc \in {"returned", "exited"}
               /\ ~otrun'.made_temp /\ otrun'.temp = {} /\ otrun'.child = "none"
               /\ otrun'.pc = "exited" =>
                      /\ otrun'.exit = Some(1)
                      /\ otrun'.listed = Some(scripts_for_tree(db, otrun'.tree))]_vars

\* the runner exited after listing the one script the tree has, asked for a
\* name that only another tree has as a script
C16_Witness ==
    /\ otrun.pc = "exited" /\ otrun.err = "NoSuchScriptForCurrentTree"
    /\ ~otrun.had /\ otrun.exit = Some(1)
    /\ otrun.listed = Some(scripts_for_tree(db, otrun.tree))
    /\ Cardinality(scripts_for_tree(db, otrun.tree)) = 1
    /\ \E r \in db.tree_scripts : r.name = otrun.name /\ r.tree_id # otrun.tree

\* C19: a child that ended makes the run a success whatever its exit code;
\* the runner then exits with the child's exit code, and with 1 when the
\* child was ended by a signal.
C19_ExitCodePassedOn ==
    /\ otrun.child = "done" => (otrun.ok /\ otrun.err = "")
    /\ (otrun.pc = "exited" /\ otrun.child = "done") =>
           otrun.exit = (IF otrun.status = None THEN Some(1) ELSE otrun.status)

\* the child exited with a code other than 0 and 1 and the runner with the same
C19_Witness ==
    /\ otrun.pc = "exited" /\ otrun.child = "done"
    /\ otrun.status = Some(2) /\ otrun.exit = Some(2)

\* C20: once run::run_script has returned, the temporary directory and the
\* script file in it are gone, whether the child ended, the write failed or
\* the spawn failed.
C20_TempGoneAfterRun ==
    otrun.pc \in {"returned", "exited"} => otrun.temp = {}

\* a run that had made its temporary directory failed before a child was
\* started, and left nothing behind
C20_Witness ==
    /\ otrun.pc = "exited" /\ otrun.made_temp /\ otrun.err = "Io"
    /\ otrun.child = "none" /\ otrun.temp = {} /\ otrun.exit = Some(1)

\* the environment variable that carries the tree root to the child
TreeRootVar == "OTKEEP_TREE_ROOT"

\* C21: a started child has the argument vector [script path, arguments in
\* the order given] and has the tree root variable set to the path of the
\* resolved root.
C21_ArgvAndTreeRootEnv ==
    otrun.child # "none" =>
        /\ otrun.argv = Some(<<ScriptPath>> \o otrun.args)
        /\ <<TreeRootVar, Unwrap(otrun.root)>> \in otrun.env

\* the errors Database::run_script can return
RunErrors == {"NoSuchScriptForCurrentTree", "QueryReturnedNoRows", "InvalidColumnType", "Io"}

C23_SweepsIdempotent ==
    [][(last'.op \in {"prune_trees", "prune_blobs_all"} /\ last'.had)
       => (db' = db /\ ~last'.ret /\ last'.ok = last.ok)]_vars

\* the trees were swept again after a sweep that had removed every tree:
\* no directory exists, no tree is left, and the file bindings of a removed
\* tree are still there
C23_Witness ==
    /\ last.op = "prune_trees" /\ last.had /\ ~last.ret /\ last.exists = {}
    /\ DOMAIN db.trees = {}
    /\ db.tree_files # {}
    /\ Tombstoned(db) # {}

BindingsOf(d, tree_id) ==
    <<{r \in d.tree_scripts : r.tree_id = tree_id}, {r \in d.tree_files : r.tree_id = tree_id}>>

\* C24: a sweep of the trees unregisters a tree exactly when its path does
\* not exist and the answer for it was y; every other tree keeps its row,
\* its script bindings and its file bindings.
C24_StaleTreeSweepSafe ==
    [][last'.op = "prune_trees" =>
         \A exists \in SUBSET Cwds, ans \in [DOMAIN db.trees -> Answers] :
             PruneTrees(exists, ans) =>
                 \A root \in get_tree_roots(db) :
                     /\ root.id \notin DOMAIN db'.trees
                            <=> (root.path \notin exists /\ ans[root.id] = "y")
                     /\ root.id \in DOMAIN db'.trees =>
                            /\ db'.trees[root.id] = db.trees[root.id]
                            /\ BindingsOf(db', root.id) = BindingsOf(db, root.id)]_vars

\* a sweep removed one stale tree and left another stale tree, answered n,
\* with its script and its file
C24_Witness ==
    /\ last.op = "prune_trees" /\ last.removed # {} /\ last.body = "n"
    /\ \E root \in get_tree_roots(db) :
           /\ root.path \notin last.exists
           /\ BindingsOf(db, root.id)[1] # {}
           /\ BindingsOf(db, root.id)[2] # {}

Referrers(d, blob_id) ==
    {r \in d.tree_scripts \cup d.tree_files : r.blob_id = blob_id}

\* C25: whatever the other invocation is doing, a blob row becomes visible
\* only together with a binding that refers to it, and a tree row goes away
\* only together with every script binding of that tree.
C25_NoHalfDoneVisible ==
    [][/\ \A b \in DOMAIN db'.blobs \ DOMAIN db.blobs : Referrers(db', b) # {}
       /\ \A t \in DOMAIN db.trees \ DOMAIN db'.trees :
              {r \in db'.tree_scripts : r.tree_id = t} = {}]_vars

\* the second invocation read while an add was between its two inserts: the
\* blob row is in the adding connection's view only, and the insert of the
\* binding is going to fail
C25_Witness ==
    /\ last.op = "read" /\ tx.pc = "second" /\ tx.op = "add_script"
    /\ tx.blob_id \in DOMAIN tx.work.blobs
    /\ tx.blob_id \notin DOMAIN db.blobs
    /\ last.blob_id < tx.blob_id
    /\ ~InsertScript(tx.work, tx.tree, tx.name, tx.blob_id).ok

\* C26: a rename that succeeds gives the new name to the script bindings of
\* that name in every tree and changes nothing else of them; bindings of
\* another name, file bindings, blobs and trees stay as they are.  (last.hit:
\* the trees that had a script of the old name.)
C26_RenameByNameAlone ==
    [][(last'.op = "rename_script" /\ last'.ok) =>
         /\ \A r \in db.tree_scripts :
                IF r.name = last'.name
                THEN /\ [r EXCEPT !.name = last'.body] \in db'.tree_scripts
                     /\ last'.name # last'.body => r \notin db'.tree_scripts
                ELSE r \in db'.tree_scripts
         /\ Cardinality(db'.tree_scripts) = Cardinality(db.tree_scripts)
         /\ db'.blobs = db.blobs /\ db'.trees = db.trees
         /\ db'.tree_files = db.tree_files]_vars

\* a rename run in one tree renamed the script of that name in two trees
C26_Witness ==
    /\ last.op = "rename_script" /\ last.ok /\ last.name # last.body
    /\ Cardinality(last.hit) = 2
    /\ \A t \in last.hit :
           /\ RowsNamed(db.tree_scripts, t, last.body) # {}
           /\ RowsNamed(db.tree_scripts, t, last.name) = {}

ScriptsOf(d, tree_id) == {r \in d.tree_scripts : r.tree_id = tree_id}

ScriptOps == {"add_script", "update_script", "rename_script", "remove_script"}

\* what `get` returns for the file name of a tree
GotFile(d, tree_id, name) ==
    LET r == get_file_by_name(d, tree_id, name) IN <<r.ok, r.err, r.val>>

\* C28: adding, updating, renaming or removing a script changes no file
\* binding and no answer of get for a file name; saving a file changes no
\* script binding.
C28_SeparateNamespaces ==
    [][/\ last'.op \in ScriptOps =>
            /\ db'.tree_files = db.tree_files
            /\ \A t \in 1..MaxTreeId, n \in Names : GotFile(db', t, n) = GotFile(db, t, n)
       /\ last'.op = "add_file" => db'.tree_scripts = db.tree_scripts]_vars

\* a script was removed from a tree that has a file of the same name, and
\* the file still reads back
C28_Witness ==
    /\ last.op = "remove_script" /\ last.ok /\ last.ret
    /\ RowsNamed(db.tree_files, last.tree, last.name) # {}
    /\ get_file_by_name(db, last.tree, last.name).ok

\* C29: also when other commands run between the steps of the sweep, the
\* blob the sweep tombstones is one no script binding refers to at that
\* moment, and it stays unreferenced by what the sweep's snapshot missed.
C29_ConcurrentSweepSafe ==
    [][last'.op = "nullify_blob" =>
         /\ last'.blob_id \notin tree_script_blob_ids(db)
         /\ last'.blob_id \notin tree_script_blob_ids(db')]_vars

\* a script was added after the sweep had read the referenced ids, and the
\* sweep then tombstoned another blob
C29_Witness ==
    /\ last.op = "nullify_blob" /\ last.ok
    /\ last.blob_id \in Tombstoned(db)
    /\ prune_pc = "loop"
    /\ tree_script_blob_ids(db) \ tree_blob_refs # {}

\* C30: the ids of the blob rows are exactly 1..count(), so the sweep over
\* the rowids 1..count() meets every blob row and no missing one.
C30_BlobIdsDense ==
    DOMAIN db.blobs = 1..blobs_table_len(db)

\* C31: every script binding and every file binding refers to a blob id that
\* has a row in the blobs table.
C31_NoDanglingBinding ==
    \A r \in db.tree_scripts \cup db.tree_files : r.blob_id \in DOMAIN db.blobs

\* C32: the tree a successful establish registers has no script binding and
\* no file binding.
C32_FreshTreeIsEmpty ==
    [][(last'.op = "establish" /\ last'.ok) =>
         \A id \in DOMAIN db'.trees \ DOMAIN db.trees :
             BindingsOf(db', id) = <<{}, {}>>]_vars

\* C33: when an invocation of establish reaches its insert, the insert fails
\* and changes nothing if the directory has become a root since the query,
\* and it registers the directory otherwise; either way no two tree rows
\* have the same path afterwards.
C33_ConcurrentEstablishUnique ==
    [][\A p \in Procs :
         (est[p].pc = "insert" /\ est'[p].pc = "done") =>
             /\ IF IsRoot(db, est[p].cwd)
                THEN ~est'[p].ok /\ db' = db
                ELSE est'[p].ok /\ IsRoot(db', est[p].cwd)
             /\ \A i, j \in DOMAIN db'.trees :
                    db'.trees[i] = db'.trees[j] => i = j]_vars

\* both invocations found no row for the same directory and both reached
\* the insert: one registered it, the other failed on the unique key
C33_Witness ==
    /\ est[1].pc = "done" /\ est[2].pc = "done"
    /\ est[1].cwd = est[2].cwd
    /\ est[1].ok /\ ~est[2].ok /\ est[2].err = "Constraint"
    /\ Cardinality(RootConflicts(db, encode_path(est[1].cwd))) = 1

\* C34: unestablish run in a directory below the root it resolves to changes
\* no table; a tree row goes away only when the current directory is the
\* root itself.
C34_UnestablishOnlyAtRoot ==
    [][last'.op = "unestablish" =>
         \A cwd \in Cwds :
             Unestablish(cwd) =>
                 /\ (find_root_for_path(db, cwd) # None /\ query_tree(db, cwd) = None)
                        => db' = db
                 /\ db' # db => /\ query_tree(db, cwd) # None
                                /\ DOMAIN db.trees \ DOMAIN db'.trees
                                       = query_tree(db, cwd)]_vars

\* unestablish was run below the root of a tree that has a script and a
\* file: it refused, and the tree and both bindings are still there
C34_Witness ==
    /\ last.op = "unestablish" /\ ~last.ok /\ last.err = "NotTheRoot"
    /\ last.tree \in DOMAIN db.trees
    /\ BindingsOf(db, last.tree)[1] # {}
    /\ BindingsOf(db, last.tree)[2] # {}
====
